---- MODULE Spec2Model ----
(***************************************************************************)
(* The question-answering turn of the financial chatbot:                   *)
(*   src/app.py             process_question, run_prompt, the chat handler *)
(*   src/simple_kg_helper.py  SimpleKGHelper (routing, graph query)        *)
(*   src/generate_sample_data.py  the integration notes that wire the      *)
(*                            graph helper in front of process_question    *)
(*                                                                         *)
(* A turn is a sequence of steps, one per blocking external call (a model  *)
(* call or a graph-store query); the step that receives the reply runs the *)
(* code up to the next external call.  Python values are tagged records.   *)
(*                                                                         *)
(* Three specifications:                                                   *)
(*   Spec        process_question, and the notes' routing in front of it,  *)
(*               called again and again in one Python process: every call  *)
(*               runs in the module namespace the calls before it left.    *)
(*   SpecFilter  df_to_transaction_list and the filter on their own.       *)
(*   SpecApp     app.py as it is shipped, run as a script by its host: the *)
(*               setup form, Change User and the chat page.  Every widget  *)
(*               event is a run of the script from its first line.  A run  *)
(*               is a sequence of steps, one per access to the session     *)
(*               state and one per blocking call; every st.* command and   *)
(*               every access to st.session_state is a point at which the  *)
(*               host ends a run it has asked to stop.  An event asks the  *)
(*               runs alive to stop; its own run starts at once, beside    *)
(*               them (fast reruns), or when they have ended.  app.py has  *)
(*               no routing: the handler calls process_question directly.  *)
(***************************************************************************)
EXTENDS Integers, Sequences, FiniteSets, TLC

VARIABLES
  authenticated,     \* st.session_state.authenticated
  list_loaded,       \* st.session_state.transaction_list is not None
  transaction_list,  \* the transaction list: the session's (SpecApp), the caller's (Spec)
  local_info,        \* the locale record: the session's (SpecApp), the caller's (Spec)
  user_id,           \* the account id: the session's (SpecApp), the caller's (Spec)
  kg,                \* a graph helper is wired in (the notes; app.py has none)
  messages,          \* st.session_state.messages
  ns,                \* module globals written by exec(..., globals())
  turn_ns,           \* the module globals as they were when the turn began
  pc,                \* position of the turn
  question,          \* the prompt of the current turn
  calls,             \* external calls and routine executions of the turn
  use_kg,            \* what should_use_kg returned in the turn
  pq,                \* arguments process_question was invoked with
  user_transactions, \* the filtered list (app.py 244, 355)
  prompt,            \* the code-generation prompt sent to the model
  code_dict,         \* json.loads(code_response)
  context,           \* context computed by get_context
  ctx_call,          \* the get_context invocation: function and argument
  plot_call,         \* the plot invocation: function and argument
  kg_run,            \* arguments of session.run
  kg_data,           \* what query_kg returned
  pq_ret,            \* what process_question returned
  result,            \* (response, context, fig) of the chat handler
  fast,              \* the host starts an event's script run at once (runner.fastReruns)
  shown,             \* the page whose widgets the browser shows: "setup" or "chat"
  pending,           \* the widget event kept by the host for the next script run
  runs               \* the script runs alive: position, locals, asked to stop

session == <<authenticated, list_loaded, transaction_list, local_info, user_id, kg>>
vars == <<authenticated, list_loaded, transaction_list, local_info, user_id, kg,
          messages,
          ns, turn_ns, pc, question, calls, use_kg, pq, user_transactions, prompt, code_dict,
          context, ctx_call, plot_call, kg_run, kg_data, pq_ret, result,
          fast, shown, pending, runs>>
\* the state of the host that runs app.py as a script
host == <<fast, shown, pending, runs>>
\* the state only the pages of app.py and their host write
page == <<messages, fast, shown, pending, runs>>

(***************************************************************************)
(* Bounds                                                                  *)
(***************************************************************************)
MaxTx == 3

(***************************************************************************)
(* Python values                                                           *)
(***************************************************************************)
PyNone == [kind |-> "None"]
PyStr(s) == [kind |-> "str", s |-> s]
PyBool(b) == [kind |-> "bool", b |-> b]
PyInt(n) == [kind |-> "int", n |-> n]
PyList == [kind |-> "list"]
PyDict(total) == [kind |-> "dict", total |-> total]
Absent == [kind |-> "absent"]
NoCall == [kind |-> "nocall"]

\* Python truth value of a value (bool(v))
Truthy(v) ==
  CASE v.kind = "None" -> FALSE
    [] v.kind = "absent" -> FALSE
    [] v.kind = "str" -> v.s # ""
    [] v.kind = "bool" -> v.b
    [] v.kind = "int" -> v.n # 0
    [] v.kind = "list" -> TRUE
    [] OTHER -> TRUE

\* dict.get(key, default): v is the value under the key, Absent without it
Get(v, default) == IF v = Absent THEN default ELSE v

(***************************************************************************)
(* Transactions                                                            *)
(***************************************************************************)
Tx(acc, cat, ttype, cur, amt) ==
  [date |-> "2024-01-15", account |-> acc, category |-> cat, merchant |-> "AMAZON",
   transaction_type |-> ttype, currency |-> cur, amount |-> amt, amount_uc |-> amt]

\* The rows of the dataset file; a loaded list is a subsequence of them.
BaseRows ==
  << Tx("A", "Food", "outcome", "USD", 10),
     Tx("A", "Leisure", "outcome", "EUR", 20),
     Tx("B", "Taxi", "outcome", "GEL", 5),
     Tx("B", "Salary", "income", "USD", 40) >>

RECURSIVE Keep(_, _, _)
Keep(rows, keep, i) ==
  IF i > Len(rows) THEN <<>>
  ELSE (IF i \in keep THEN <<rows[i]>> ELSE <<>>) \o Keep(rows, keep, i + 1)

TxLists ==
  { Keep(BaseRows, keep, 1) :
      keep \in { k \in SUBSET (1..Len(BaseRows)) : Cardinality(k) <= MaxTx } }

UserIds == {"A", "B"}
Questions == {"how much did I spend", "top merchants"}
Locales ==
  { [user_language |-> "ENG", user_country |-> "USA", currency |-> "USD",
     start_date |-> "2024-01-15", latest_date |-> "2024-01-15"],
    [user_language |-> "RUS", user_country |-> "RUS", currency |-> "EUR",
     start_date |-> "2024-01-15", latest_date |-> "2024-01-15"] }

RECURSIVE SumOutcome(_)
SumOutcome(l) ==
  IF l = <<>> THEN 0
  ELSE (IF Head(l).transaction_type = "outcome" THEN Head(l).amount_uc ELSE 0)
       + SumOutcome(Tail(l))

\* A row of the DataFrame read from test_input.csv, by its raw cell values
RawRow(acc, cat, ttype, cur, amt) ==
  [date |-> PyStr("2024-01-15"), account |-> acc, category |-> PyStr(cat),
   merchant |-> PyStr("AMAZON"), transaction_type |-> PyStr(ttype),
   currency |-> PyStr(cur), amount |-> PyInt(amt), amount_uc |-> PyInt(amt)]

DecimalDigits == <<"0", "1", "2", "3", "4", "5", "6", "7", "8", "9">>
\* str(v) of a cell: a text is itself, a number is its decimal text
Str(v) ==
  CASE v.kind = "str" -> v.s
    [] v.kind = "int" /\ v.n < 10 -> DecimalDigits[v.n + 1]
    [] v.kind = "int" /\ v.n >= 10 ->
         DecimalDigits[(v.n \div 10) + 1] \o DecimalDigits[(v.n % 10) + 1]
\* float(v) of a numeric cell
Float(v) == v.n

\* df_to_transaction_list: one Transaction per row, in the rows' order
DfToTransactionList(df) ==
  [i \in 1..Len(df) |->
     [date |-> Str(df[i].date), account |-> Str(df[i].account),
      category |-> Str(df[i].category), merchant |-> Str(df[i].merchant),
      transaction_type |-> Str(df[i].transaction_type),
      currency |-> Str(df[i].currency), amount |-> Float(df[i].amount),
      amount_uc |-> Float(df[i].amount_uc)]]

\* the filter stopping at the first record of the account
UserTransactionsFirstMatch(l, uid) ==
  LET s == SelectSeq(l, LAMBDA t : t.account = uid)
  IN IF s = <<>> THEN <<>> ELSE <<Head(s)>>

\* the filter forgotten: every record is taken for the user's
UserTransactionsUnfiltered(l, uid) == l

\* [t for t in transaction_list if t.account == current_user_id]
UserTransactions(l, uid) == SelectSeq(l, LAMBDA t : t.account = uid)

(***************************************************************************)
(* Model replies.  A reply is a transport error, a text that is not a JSON *)
(* object, or the text of a JSON object (held by its keys).                *)
(***************************************************************************)
ApiError == [kind |-> "error"]
Text(s) == [kind |-> "text", text |-> s]
Object(rel, diag, cc, expl, dc) ==
  [kind |-> "object", is_relevant |-> rel, needs_diagram |-> diag,
   context_code |-> cc, algorithm_explanation |-> expl, diagram_code |-> dc]

\* Generated source texts (context_code)
CtxSumReceived ==
  "def get_context(transaction_list): return {'total': sum(t.amount_uc for t in transaction_list if t.transaction_type == 'outcome')}"
CtxRaises == "def get_context(transaction_list): raise ValueError('boom')"
CtxNonMapping == "def get_context(transaction_list): return len(transaction_list)"
CtxNoEntry == ""
CtxSyntaxError == "def get_context(transaction_list) return"
CtxCodes == {CtxSumReceived, CtxRaises, CtxNonMapping, CtxNoEntry, CtxSyntaxError}

\* Generated source texts (diagram_code)
PlotBar ==
  "def plot(context): import plotly.graph_objects as go; return go.Figure(data=[go.Bar(y=[context['total']])])"
PlotRaises == "def plot(context): raise ValueError('boom')"
PlotNoEntry == "x = 1"
PlotSyntaxError == "def plot(context) return"
PlotEmpty == ""
PlotCodes == {PlotBar, PlotRaises, PlotNoEntry, PlotSyntaxError, PlotEmpty}

Explanation == PyStr("sum of the outcome amounts")

\* The canonical reply the prompt asks for on an irrelevant question (line 155)
IrrelevantReply ==
  Object(PyBool(FALSE), PyBool(FALSE), PyStr(""), PyStr(""), PyStr(""))

CodeReplies ==
  {ApiError, Text(""), Text(" "), Text("not json"), Text("[1]"), Text("null")}
  \cup {IrrelevantReply,
        Object(PyBool(FALSE), PyBool(TRUE), PyStr(CtxSumReceived), Explanation,
               PyStr(PlotBar))}
  \cup {Object(PyBool(TRUE), PyBool(d), PyStr(cc), Explanation, PyStr(dc)) :
          d \in BOOLEAN, cc \in CtxCodes, dc \in PlotCodes}
  \cup {Object(Absent, PyBool(TRUE), PyStr(CtxSumReceived), Explanation, PyStr(PlotBar)),
        Object(PyBool(TRUE), Absent, PyStr(CtxSumReceived), Explanation, PyStr(PlotBar)),
        Object(PyBool(TRUE), PyBool(TRUE), Absent, Explanation, PyStr(PlotBar)),
        Object(PyBool(TRUE), PyBool(TRUE), PyStr(CtxSumReceived), Absent, PyStr(PlotBar)),
        Object(PyBool(TRUE), PyBool(TRUE), PyStr(CtxSumReceived), Explanation, Absent),
        Object(PyStr("no"), PyBool(FALSE), PyStr(CtxSumReceived), Explanation, PyStr("")),
        Object(PyBool(TRUE), PyBool(FALSE), PyInt(5), Explanation, PyStr("")),
        Object(PyBool(TRUE), PyStr("false"), PyStr(CtxSumReceived), Explanation,
               PyStr(PlotBar))}

AnswerText == "You spent $30."
SynthReplies == {ApiError, Text(""), Text(AnswerText)}

\* str.strip() on the reply texts above
Strip(s) == IF s = " " THEN "" ELSE s

\* a failed model call made a second time
RetryPromptOnce(reply, made) == reply.kind = "error" /\ made < 2

\* whether the model is called again after a reply, made calls so far:
\* run_prompt (lines 211-238) makes one client.chat.completions.create call in
\* no loop, and its callers return on a None result (lines 264-265)
RetryPrompt(reply, made) == FALSE

\* run_prompt: the stripped content, or None on any exception
RunPrompt(reply) ==
  CASE reply.kind = "error" -> PyNone
    [] reply.kind = "text" -> PyStr(Strip(reply.text))
    [] OTHER -> reply

\* json.loads: [ok, value]
JsonLoads(content) ==
  CASE content.kind = "object" -> [ok |-> TRUE, value |-> content]
    [] content.kind = "str" /\ content.s = "[1]" -> [ok |-> TRUE, value |-> PyList]
    [] content.kind = "str" /\ content.s = "null" -> [ok |-> TRUE, value |-> PyNone]
    [] OTHER -> [ok |-> FALSE, value |-> PyNone]

(***************************************************************************)
(* The module namespace and the execution of generated code                *)
(***************************************************************************)
Undef == "<undefined>"
\* fresh: bound by an exec of the current turn (history flag, not program state)
Binding(src, fresh) == [src |-> src, fresh |-> fresh]
EmptyNs == [get_context |-> Binding(Undef, FALSE), plot |-> Binding(Undef, FALSE)]
Stale(n) == [get_context |-> Binding(n.get_context.src, FALSE),
             plot |-> Binding(n.plot.src, FALSE)]

CtxDefining == {CtxSumReceived, CtxRaises, CtxNonMapping}
PlotDefining == {PlotBar, PlotRaises}
SyntaxErrors == {CtxSyntaxError, PlotSyntaxError}

\* exec(code, globals()) for the entry point `name`: [ok, ns]
Exec(code, n, name, defining) ==
  CASE code.kind # "str" -> [ok |-> FALSE, ns |-> n]
    [] code.kind = "str" /\ code.s \in SyntaxErrors -> [ok |-> FALSE, ns |-> n]
    [] code.kind = "str" /\ code.s \in defining ->
         [ok |-> TRUE, ns |-> [n EXCEPT ![name] = Binding(code.s, TRUE)]]
    [] OTHER -> [ok |-> TRUE, ns |-> n]

\* get_context(l) for the function bound from source text src: [ok, value]
CallContext(src, l) ==
  CASE src = CtxSumReceived -> [ok |-> TRUE, value |-> PyDict(SumOutcome(l))]
    [] src = CtxNonMapping -> [ok |-> TRUE, value |-> PyInt(Len(l))]
    [] OTHER -> [ok |-> FALSE, value |-> PyNone]

PyFigure(y) == [kind |-> "figure", y |-> y]

\* plot(context) for the function bound from source text src: [ok, value]
CallPlot(src, ctx) ==
  CASE src = PlotBar /\ ctx.kind = "dict" -> [ok |-> TRUE, value |-> PyFigure(ctx.total)]
    [] OTHER -> [ok |-> FALSE, value |-> PyNone]

Called(binding, arg) == [kind |-> "called", src |-> binding.src,
                         fresh |-> binding.fresh, arg |-> arg]

\* the argument process_question passes to get_context (line 281)
ContextArgument(args) == args.transaction_list

\* lines 278-286: exec the context code and call get_context. Without the
\* key, code_dict['context_code'] raises KeyError at line 280 and again
\* inside the handler at line 285, where nothing catches it (escaped).
RunContext(cd, n, args) ==
  IF cd.context_code = Absent
  THEN [ok |-> FALSE, escaped |-> TRUE, context |-> PyNone, ns |-> n, execd |-> 0,
        call |-> NoCall]
  ELSE LET e == Exec(cd.context_code, n, "get_context", CtxDefining)
           f == e.ns.get_context
           r == CallContext(f.src, ContextArgument(args))
       IN IF ~e.ok \/ f.src = Undef
          THEN [ok |-> FALSE, escaped |-> FALSE, context |-> PyNone, ns |-> e.ns,
                execd |-> 1, call |-> NoCall]
          ELSE [ok |-> r.ok, escaped |-> FALSE, context |-> r.value, ns |-> e.ns,
                execd |-> 1, call |-> Called(f, ContextArgument(args))]

\* line 300: code_dict.get('needs_diagram', False) and code_dict.get('diagram_code')
DiagramWanted(cd) ==
  /\ Truthy(Get(cd.needs_diagram, PyBool(FALSE)))
  /\ Truthy(Get(cd.diagram_code, PyNone))

\* lines 299-307: exec the diagram code and call plot; fig stays None on failure
RunPlot(cd, ctx, n) ==
  IF ~DiagramWanted(cd)
  THEN [fig |-> PyNone, ns |-> n, execd |-> 0, call |-> NoCall]
  ELSE LET e == Exec(cd.diagram_code, n, "plot", PlotDefining)
           f == e.ns.plot
           r == CallPlot(f.src, ctx)
       IN IF ~e.ok \/ f.src = Undef
          THEN [fig |-> PyNone, ns |-> e.ns, execd |-> 1, call |-> NoCall]
          ELSE [fig |-> r.value, ns |-> e.ns, execd |-> 1, call |-> Called(f, ctx)]

(***************************************************************************)
(* process_question (src/app.py 240-309)                                   *)
(***************************************************************************)
Pending == [kind |-> "pending", answer |-> PyNone, context |-> PyNone, chart |-> PyNone]
Returned(a, c, f) == [kind |-> "returned", answer |-> a, context |-> c, chart |-> f]
Raised == [kind |-> "raised", answer |-> PyNone, context |-> PyNone, chart |-> PyNone]

NoTransactionsMsg(uid) == "No transactions found for user ID: " \o uid
IrrelevantMsg == "Sorry, I can only answer questions about your financial transactions."

Args(q, l, info, uid) ==
  [question |-> q, transaction_list |-> l, local_info |-> info, current_user_id |-> uid]

Categories(l) == { l[i].category : i \in 1..Len(l) }
Currencies(l) == { l[i].currency : i \in 1..Len(l) }

\* the prompt built from the categories and currencies of the whole list
FullPromptAllRecords(args) ==
  [kind |-> "prompt", question |-> args.question,
   current_user_id |-> args.current_user_id,
   unique_categories |-> Categories(args.transaction_list),
   unique_currencies |-> Currencies(args.transaction_list),
   local_info |-> args.local_info]

\* lines 250-261: the code-generation prompt, by the values it embeds
FullPrompt(args) ==
  LET ut == UserTransactions(args.transaction_list, args.current_user_id)
  IN [kind |-> "prompt", question |-> args.question,
      current_user_id |-> args.current_user_id,
      unique_categories |-> Categories(ut), unique_currencies |-> Currencies(ut),
      local_info |-> args.local_info]

\* lines 243-263: up to the code-generation call
ProcessQuestionEntry(args) ==
  IF UserTransactions(args.transaction_list, args.current_user_id) = <<>>
  THEN [kind |-> "return", prompt |-> NoCall,
        ret |-> Returned(PyStr(NoTransactionsMsg(args.current_user_id)), PyNone, PyNone)]
  ELSE [kind |-> "call", prompt |-> FullPrompt(args), ret |-> Pending]

\* the key's presence tested in place of its value
IsRelevantKeyPresent(cd) == cd.is_relevant # Absent

\* line 274: code_dict.get('is_relevant', False)
IsRelevant(cd) == Truthy(Get(cd.is_relevant, PyBool(FALSE)))

\* the handler swallowing the error and going on
ContextFailedIgnored(run) == FALSE

\* lines 282-286: an exception of exec or get_context ends the call
ContextFailed(run) == ~run.ok

NoSandbox ==
  [ok |-> FALSE, escaped |-> FALSE, context |-> PyNone, ns |-> EmptyNs, execd |-> 0,
   call |-> NoCall]

\* lines 263-296: from the code-generation reply to the answer-synthesis call
AfterCodeGen(reply, args, n) ==
  LET code_response == RunPrompt(reply)
      parsed == JsonLoads(code_response)
      cd == parsed.value
      run == RunContext(cd, n, args)
      early(ret, d) == [kind |-> "return", ret |-> ret, code_dict |-> d,
                        run |-> [NoSandbox EXCEPT !.ns = n]]
  IN CASE ~Truthy(code_response) -> early(Returned(PyNone, PyNone, PyNone), PyNone)
       [] Truthy(code_response) /\ ~parsed.ok ->
            early(Returned(PyNone, PyNone, PyNone), PyNone)
       [] Truthy(code_response) /\ parsed.ok /\ cd.kind # "object" -> early(Raised, cd)
       [] OTHER ->
            IF ~IsRelevant(cd)
            THEN early(Returned(PyStr(IrrelevantMsg), PyNone, PyNone), cd)
            ELSE IF ContextFailed(run)
            THEN [kind |-> "return",
                  ret |-> IF run.escaped THEN Raised
                          ELSE Returned(PyNone, PyNone, PyNone),
                  code_dict |-> cd, run |-> run]
            ELSE [kind |-> "call", ret |-> Pending, code_dict |-> cd, run |-> run]

\* lines 296-309: from the answer-synthesis reply to the return
AfterSynth(reply, cd, ctx, n) ==
  LET output == RunPrompt(reply)
      p == RunPlot(cd, ctx, n)
  IN [ret |-> Returned(output, ctx, p.fig), plot |-> p]

(***************************************************************************)
(* SimpleKGHelper (src/simple_kg_helper.py)                                *)
(***************************************************************************)
UseKg(v) == [kind |-> "object", use_kg |-> v]
RouteReplies ==
  {ApiError, Text("not json"), Text("[1]"),
   UseKg(PyBool(TRUE)), UseKg(PyBool(FALSE)), UseKg(Absent), UseKg(PyStr("false"))}

\* should_use_kg, lines 38-65: the value returned for a routing reply
ShouldUseKg(reply) ==
  LET parsed == JsonLoads(IF reply.kind = "text" THEN PyStr(reply.text) ELSE reply)
  IN CASE reply.kind = "error" -> PyBool(FALSE)
       [] reply.kind # "error" /\ ~parsed.ok -> PyBool(FALSE)
       [] reply.kind # "error" /\ parsed.ok /\ parsed.value.kind # "object" -> PyBool(FALSE)
       [] OTHER -> Get(parsed.value.use_kg, PyBool(FALSE))

CypherScoped ==
  "MATCH (u:User {id: $user_id})-[:MADE_TRANSACTION]->(t:Transaction) RETURN sum(toFloat(t.amount_uc)) AS total"
CypherUnscoped == "MATCH (t:Transaction) RETURN sum(toFloat(t.amount_uc)) AS total"
\* the query texts that bind $user_id to the User node they start from
UserScoped == {CypherScoped}

Params(u) == [kind |-> "params", user_id |-> u]
Cypher(c, ps) == [kind |-> "object", cypher |-> c, parameters |-> ps]
CypherReplies ==
  {ApiError, Text("not json"), Text("[1]"),
   Cypher(Absent, Absent), Cypher(PyStr(""), Params("A")),
   Cypher(PyStr(CypherScoped), Absent),
   Cypher(PyStr(CypherScoped), Params("A")),
   Cypher(PyStr(CypherScoped), Params("B")),
   Cypher(PyStr(CypherUnscoped), Absent),
   Cypher(PyStr(CypherUnscoped), Params("B"))}

\* query_kg, lines 219-244: from the query-generation reply to session.run
QueryKgGenerated(reply, uid) ==
  LET parsed == JsonLoads(IF reply.kind = "text" THEN PyStr(reply.text) ELSE reply)
      res == parsed.value
      cypher == Get(res.cypher, PyNone)
      parameters == Get(res.parameters, Params(uid))
  IN CASE reply.kind = "error" -> [kind |-> "return"]
       [] reply.kind # "error" /\ ~parsed.ok -> [kind |-> "return"]
       [] reply.kind # "error" /\ parsed.ok /\ res.kind # "object" -> [kind |-> "return"]
       [] OTHER ->
            IF ~Truthy(cypher) THEN [kind |-> "return"]
            ELSE [kind |-> "run", cypher |-> cypher.s, parameters |-> parameters]

StoreError == [kind |-> "error"]
Rows(rs) == [kind |-> "rows", rows |-> rs]
StoreReplies == {StoreError, Rows(<<>>), Rows(<<[total |-> 30]>>), Rows(<<[total |-> 35]>>)}

\* query_kg, lines 245-260: from the store's reply to the return value
QueryKgExecuted(run, reply) ==
  IF reply.kind = "error" THEN PyNone
  ELSE [kind |-> "kg_data", source |-> "kg", cypher |-> run.cypher,
        results |-> reply.rows, parameters |-> run.parameters]

\* the Russian text of line 266 is written here in Latin letters
NoDataMsg(language) == IF language = "RUS" THEN "Dannye ne naideny." ELSE "No data found."

\* the early return taken for a null result only
FormatKgEntryNullOnly(data, language) ==
  IF data = PyNone
  THEN [kind |-> "return", text |-> PyStr(NoDataMsg(language))]
  ELSE [kind |-> "call", text |-> PyNone]

\* format_kg_results, lines 265-266: the early return
FormatKgEntry(data, language) ==
  IF data = PyNone \/ data.results = <<>>
  THEN [kind |-> "return", text |-> PyStr(NoDataMsg(language))]
  ELSE [kind |-> "call", text |-> PyNone]

KgAnswerText == "You spent $30 in total."
FormatReplies == {ApiError, Text(KgAnswerText)}

\* str(kg_data['results'])
StrRows(rs) == IF rs = <<[total |-> 30]>> THEN "[{'total': 30}]" ELSE "[{'total': 35}]"

\* format_kg_results, lines 284-296: from the formatting reply to the return value
FormatKgReply(data, reply) ==
  IF reply.kind = "error" THEN PyStr(StrRows(data.results))
  ELSE PyStr(Strip(reply.text))

(***************************************************************************)
(* The turn: the chat handler (src/app.py 409-445) with the routing of the *)
(* integration notes (src/generate_sample_data.py 151-192) in place of the *)
(* process_question call                                                   *)
(***************************************************************************)
NoCalls == [route |-> 0, cypher |-> 0, store |-> 0, format |-> 0, codegen |-> 0,
            synth |-> 0, exec_ctx |-> 0, call_ctx |-> 0, exec_plot |-> 0,
            call_plot |-> 0]

Invoked(call) == IF call = NoCall THEN 0 ELSE 1

\* the arguments of the direct call (app.py 418-423, notes 187-192)
HandlerArgs(q) == Args(q, transaction_list, local_info, user_id)
\* the fallback called on an empty list
FallbackArgsEmptyList(q) == Args(q, <<>>, local_info, user_id)

\* the arguments of the fallback call (notes 180-183)
FallbackArgs(q) == Args(q, transaction_list, local_info, user_id)
\* notes line 164: if kg_data
KgSucceeded(data) == data # PyNone

\* lines 411 and 438-443: the entries of the chat history
UserMessage(q) ==
  [role |-> "user", content |-> PyStr(q), context |-> Absent, figure |-> Absent]
AssistantMessage(res) ==
  [role |-> "assistant", content |-> res.answer, context |-> res.context,
   figure |-> res.chart]

\* line 425: if response (an escaped exception ends the script run before it)
SavesReply(res) == res.kind = "returned" /\ Truthy(res.answer)

\* process_question is entered with args; c counts the calls made so far
EnterPQ(args, c) ==
  LET e == ProcessQuestionEntry(args)
  IN /\ pq' = args
     /\ user_transactions' = UserTransactions(args.transaction_list, args.current_user_id)
     /\ prompt' = e.prompt
     /\ pq_ret' = e.ret
     /\ result' = e.ret
     /\ IF e.kind = "return"
        THEN pc' = "Done" /\ calls' = c
        ELSE pc' = "CodeGen" /\ calls' = [c EXCEPT !.codegen = @ + 1]

\* the most script runs alive at once
MaxRuns == 2

\* the widget events: the submitted setup form with the id typed and the
\* locale chosen, the pressed Change User button, the prompt of the chat input
NoChoice == [user_language |-> "", user_country |-> "", currency |-> ""]
NoEvent == [kind |-> "none", q |-> "", uid |-> "", choice |-> NoChoice]
SetupEvent(uid, choice) == [kind |-> "setup", q |-> "", uid |-> uid, choice |-> choice]
ChangeUserEvent == [kind |-> "change_user", q |-> "", uid |-> "", choice |-> NoChoice]
PromptEvent(q) == [kind |-> "prompt", q |-> q, uid |-> "", choice |-> NoChoice]
\* a slot without a script run
NoRun == [kind |-> "none"]
NoRuns == [i \in 1..MaxRuns |-> NoRun]
\* the setup page is shown, no event is kept, no script run is alive
HostQuiet == shown = "setup" /\ pending = NoEvent /\ runs = NoRuns

\* A process in which process_question, or the notes' routing in front of
\* it, is called directly, before the first call.  Without a helper the
\* caller passes its own list, locale record and id to process_question and
\* the session is as lines 30-38 leave it.  The notes' routing reads the
\* helper, the list, the locale record and the id from st.session_state, so
\* with a helper the session holds the list.  No page has run: the session
\* is not authenticated, the history is empty, no script run is in flight,
\* and no routine has been bound in the module namespace yet.
Init ==
  /\ authenticated = FALSE
  /\ kg \in BOOLEAN
  /\ list_loaded = kg
  /\ transaction_list \in TxLists
  /\ local_info \in Locales
  /\ user_id \in UserIds
  /\ messages = <<>>
  /\ ns = EmptyNs
  /\ turn_ns = EmptyNs
  /\ pc = "Idle"
  /\ question = ""
  /\ calls = NoCalls
  /\ use_kg = NoCall
  /\ pq = NoCall
  /\ user_transactions = <<>>
  /\ prompt = NoCall
  /\ code_dict = PyNone
  /\ context = PyNone
  /\ ctx_call = NoCall
  /\ plot_call = NoCall
  /\ kg_run = NoCall
  /\ kg_data = PyNone
  /\ pq_ret = Pending
  /\ result = Pending
  /\ fast = TRUE /\ HostQuiet

\* a question starts a turn in the module namespace n
StartTurn(q, n) ==
  /\ question' = q
  /\ ns' = n
  /\ turn_ns' = n
  /\ use_kg' = NoCall
  /\ code_dict' = PyNone /\ context' = PyNone
  /\ ctx_call' = NoCall /\ plot_call' = NoCall
  /\ kg_run' = NoCall /\ kg_data' = PyNone

\* The next direct call in the same process, in the namespace the calls
\* before it left (exec(code, globals()) binds in the module's globals, and
\* nothing unbinds): the notes' routing when a helper is wired in,
\* process_question when there is none.
Ask(q) ==
  /\ pc \in {"Idle", "Done"}
  /\ StartTurn(q, Stale(ns))
  /\ IF kg
     THEN /\ pc' = "Routing"
          /\ calls' = [NoCalls EXCEPT !.route = 1]
          /\ pq' = NoCall /\ prompt' = NoCall
          /\ user_transactions' = <<>>
          /\ pq_ret' = Pending /\ result' = Pending
     ELSE EnterPQ(HandlerArgs(q), NoCalls)
  /\ UNCHANGED session

\* the routing reply arrives
RoutingReply(reply) ==
  /\ pc = "Routing"
  /\ use_kg' = ShouldUseKg(reply)
  /\ IF Truthy(ShouldUseKg(reply))
     THEN /\ pc' = "KGQuery"
          /\ calls' = [calls EXCEPT !.cypher = @ + 1]
          /\ UNCHANGED <<pq, user_transactions, prompt, pq_ret, result>>
     ELSE EnterPQ(HandlerArgs(question), calls)
  /\ UNCHANGED <<session, turn_ns, ns, question, code_dict, context, ctx_call, plot_call,
                 kg_run, kg_data>>

\* the query-generation reply arrives
CypherReply(reply) ==
  /\ pc = "KGQuery"
  /\ LET g == QueryKgGenerated(reply, user_id)
     IN IF g.kind = "run"
        THEN /\ pc' = "KGExec"
             /\ kg_run' = [kind |-> "run", cypher |-> g.cypher,
                           parameters |-> g.parameters]
             /\ calls' = [calls EXCEPT !.store = @ + 1]
             /\ UNCHANGED <<pq, user_transactions, prompt, pq_ret, result>>
        ELSE /\ kg_run' = NoCall
             /\ EnterPQ(FallbackArgs(question), calls)
  /\ UNCHANGED <<session, turn_ns, use_kg, ns, question, code_dict, context, ctx_call, plot_call,
                 kg_data>>

\* the store answers session.run
StoreReply(reply) ==
  /\ pc = "KGExec"
  /\ LET data == QueryKgExecuted(kg_run, reply)
         f == FormatKgEntry(data, local_info.user_language)
     IN IF KgSucceeded(data)
        THEN /\ kg_data' = data
             /\ kg_run' = kg_run
             /\ UNCHANGED <<pq, user_transactions, prompt, pq_ret>>
             /\ IF f.kind = "return"
                THEN /\ pc' = "Done"
                     /\ result' = Returned(f.text, data, PyNone)
                     /\ calls' = calls
                ELSE /\ pc' = "KGFormat"
                     /\ result' = Pending
                     /\ calls' = [calls EXCEPT !.format = @ + 1]
        ELSE /\ kg_data' = PyNone
             /\ kg_run' = NoCall
             /\ EnterPQ(FallbackArgs(question), calls)
  /\ UNCHANGED <<session, turn_ns, use_kg, ns, question, code_dict, context, ctx_call, plot_call>>

\* the formatting reply arrives
FormatReply(reply) ==
  /\ pc = "KGFormat"
  /\ pc' = "Done"
  /\ result' = Returned(FormatKgReply(kg_data, reply), kg_data, PyNone)
  /\ UNCHANGED <<session, turn_ns, use_kg, ns, question, calls, pq, user_transactions, prompt,
                 code_dict, context, ctx_call, plot_call, kg_run, kg_data, pq_ret>>

\* the code-generation reply arrives
CodeGenReply(reply) ==
  /\ pc = "CodeGen"
  /\ LET a == AfterCodeGen(reply, pq, ns)
     IN IF RetryPrompt(reply, calls.codegen)
        THEN /\ calls' = [calls EXCEPT !.codegen = @ + 1]
             /\ UNCHANGED <<pc, code_dict, ns, context, ctx_call, pq_ret, result>>
        ELSE /\ code_dict' = a.code_dict
             /\ ns' = a.run.ns
             /\ context' = a.run.context
             /\ ctx_call' = a.run.call
             /\ pq_ret' = a.ret
             /\ result' = a.ret
             /\ IF a.kind = "call"
                THEN /\ pc' = "Synth"
                     /\ calls' = [calls EXCEPT !.exec_ctx = @ + a.run.execd,
                                               !.call_ctx = @ + Invoked(a.run.call),
                                               !.synth = @ + 1]
                ELSE /\ pc' = "Done"
                     /\ calls' = [calls EXCEPT !.exec_ctx = @ + a.run.execd,
                                               !.call_ctx = @ + Invoked(a.run.call)]
  /\ UNCHANGED <<session, turn_ns, use_kg, question, pq, user_transactions, prompt, plot_call,
                 kg_run, kg_data>>

\* the answer-synthesis reply arrives
SynthReply(reply) ==
  /\ pc = "Synth"
  /\ LET a == AfterSynth(reply, code_dict, context, ns)
     IN IF RetryPrompt(reply, calls.synth)
        THEN /\ calls' = [calls EXCEPT !.synth = @ + 1]
             /\ UNCHANGED <<pc, ns, plot_call, pq_ret, result>>
        ELSE /\ ns' = a.plot.ns
             /\ plot_call' = a.plot.call
             /\ pq_ret' = a.ret
             /\ result' = a.ret
             /\ calls' = [calls EXCEPT !.exec_plot = @ + a.plot.execd,
                                       !.call_plot = @ + Invoked(a.plot.call)]
             /\ pc' = "Done"
  /\ UNCHANGED <<session, turn_ns, use_kg, question, pq, user_transactions, prompt, code_dict,
                 context, ctx_call, kg_run, kg_data>>

\* The answering of questions, one after another in one process: the
\* routing, the helper and process_question write nothing to the chat
\* history, which is the chat page's (SpecApp below).
Next ==
  \/ \E q \in Questions : Ask(q) /\ UNCHANGED page
  \/ \E r \in RouteReplies : RoutingReply(r) /\ UNCHANGED page
  \/ \E r \in CypherReplies : CypherReply(r) /\ UNCHANGED page
  \/ \E r \in StoreReplies : StoreReply(r) /\ UNCHANGED page
  \/ \E r \in FormatReplies : FormatReply(r) /\ UNCHANGED page
  \/ \E r \in CodeReplies : CodeGenReply(r) /\ UNCHANGED page
  \/ \E r \in SynthReplies : SynthReply(r) /\ UNCHANGED page

Spec == Init /\ [][Next]_vars

(***************************************************************************)
(* Loading and filtering on their own: df_to_transaction_list followed by  *)
(* the filter of app.py 244, on every short DataFrame over FilterRows      *)
(***************************************************************************)
MaxRows == 3

FilterRows ==
  { RawRow(PyStr("A"), "Food", "outcome", "USD", 10),
    RawRow(PyStr("A"), "Leisure", "outcome", "EUR", 20),
    RawRow(PyStr("B"), "Taxi", "outcome", "GEL", 5),
    RawRow(PyInt(7), "Food", "outcome", "USD", 10) }
DataFrames == UNION { [1..n -> FilterRows] : n \in 0..MaxRows }
FilterIds == {"A", "B", "C", "7"}

\* no turn has been started
NoTurn ==
  /\ ns = EmptyNs /\ turn_ns = EmptyNs
  /\ pc = "Idle" /\ question = "" /\ calls = NoCalls /\ use_kg = NoCall
  /\ pq = NoCall /\ user_transactions = <<>> /\ prompt = NoCall
  /\ code_dict = PyNone /\ context = PyNone
  /\ ctx_call = NoCall /\ plot_call = NoCall
  /\ kg_run = NoCall /\ kg_data = PyNone
  /\ pq_ret = Pending /\ result = Pending

turn == <<ns, turn_ns, question, calls, use_kg, pq, prompt, code_dict, context, ctx_call,
          plot_call, kg_run, kg_data, pq_ret, result>>

\* the session as lines 30-38 leave it (user_id is not set there)
NewSession ==
  /\ authenticated = FALSE
  /\ list_loaded = FALSE /\ transaction_list = <<>>
  /\ local_info = PyNone
  /\ user_id = ""
  /\ messages = <<>>

InitFilter == NewSession /\ kg = FALSE /\ NoTurn /\ fast = TRUE /\ HostQuiet

\* line 352: the list is loaded from a DataFrame
Load(df) ==
  /\ transaction_list' = DfToTransactionList(df)
  /\ list_loaded' = TRUE
  /\ user_transactions' = <<>>
  /\ pc' = "Loaded"
  /\ UNCHANGED <<authenticated, local_info, user_id, kg, messages, turn, host>>

\* lines 244, 355: the loaded list is filtered by an account id
FilterBy(id) ==
  /\ list_loaded
  /\ user_id' = id
  /\ user_transactions' = UserTransactions(transaction_list, id)
  /\ pc' = "Filtered"
  /\ UNCHANGED <<authenticated, list_loaded, transaction_list, local_info, kg,
                 messages, turn, host>>

NextFilter ==
  \/ \E df \in DataFrames : Load(df)
  \/ \E id \in FilterIds : FilterBy(id)

SpecFilter == InitFilter /\ [][NextFilter]_vars

(***************************************************************************)
(* The application: app.py run as a script.  The host runs the script from *)
(* its first line for every widget event; the setup form (345-376), Change *)
(* User (387-390) and the chat handler (409-445) are the parts of a run    *)
(* that write the session.  A run is at a blocking call (the dataset read, *)
(* a model call) or before an access to st.session_state that the host has *)
(* let it make; a step makes the access and runs the code up to the next   *)
(* one, where the host ends the run when it has been asked to stop.        *)
(***************************************************************************)
\* test_input.csv as load_baseline_dataset finds it: missing, or its rows
FileMissing == [found |-> FALSE, rows |-> <<>>]
File(rows) == [found |-> TRUE, rows |-> rows]
DatedRow(acc, cat, cur, amt, date) ==
  [RawRow(PyStr(acc), cat, "outcome", cur, amt) EXCEPT !.date = PyStr(date)]
\* the file is read anew by every submission of the form: it is missing,
\* holds the records of the accounts A and B, or (written again since) of B
AppFiles ==
  {FileMissing,
   File(<<DatedRow("A", "Food", "USD", 10, "2024-02-01"),
          DatedRow("B", "Taxi", "GEL", 5, "2024-01-15"),
          DatedRow("A", "Leisure", "EUR", 20, "2024-01-15")>>),
   File(<<DatedRow("B", "Taxi", "GEL", 5, "2024-01-15")>>)}

\* the ids typed into the form: none, and an account that one of the files
\* has records of and the other has not
FormUserIds == {"", "A"}
\* the language, country and currency chosen in the form
FormLocales ==
  { [user_language |-> "ENG", user_country |-> "USA", currency |-> "USD"] }

\* the dates of the files in the order Python's string comparison gives them
DateOrder == <<"2024-01-15", "2024-02-01">>
DatesOf(l) == { l[i].date : i \in 1..Len(l) }
Ranks(ds) == { i \in 1..Len(DateOrder) : DateOrder[i] \in ds }
\* min(dates) and max(dates) of lines 360-362 (never called on an empty list)
MinDate(ds) ==
  IF ds = {} THEN ""
  ELSE DateOrder[CHOOSE i \in Ranks(ds) : \A j \in Ranks(ds) : i <= j]
MaxDate(ds) ==
  IF ds = {} THEN ""
  ELSE DateOrder[CHOOSE i \in Ranks(ds) : \A j \in Ranks(ds) : i >= j]

\* line 357: if not user_transactions: error, else the session is set up
SetupAccepts(ut) == ut # <<>>

\* lines 365-371: the locale record built from the form and the user's dates
LocalInfo(choice, ut) ==
  [user_language |-> choice.user_language, user_country |-> choice.user_country,
   currency |-> choice.currency,
   start_date |-> MinDate(DatesOf(ut)), latest_date |-> MaxDate(DatesOf(ut))]

\* The module globals a script run starts in.  The host that runs app.py is
\* not part of the sources; the specification gives a generated routine the
\* lifetime of one question ("created per question, discarded after use"),
\* which is what the host does that runs every script run in a new module:
\* no routine is bound, whatever the globals n of a run before held.
ScriptRunGlobals(n) == EmptyNs

\* the questions the turns of the application are run on
AppQuestions == Questions
\* the code-generation replies they are run on: a failed call, JSON that is
\* no object, an irrelevant question, and relevant ones whose context code
\* raises or works, with diagram code that works
AppCodeReplies ==
  {ApiError, Text("[1]"), IrrelevantReply,
   Object(PyBool(TRUE), PyBool(TRUE), PyStr(CtxSumReceived), Explanation, PyStr(PlotBar)),
   Object(PyBool(TRUE), PyBool(FALSE), PyStr(CtxRaises), Explanation, PyStr(""))}
\* the answer-synthesis replies: a failed call and an answer text
AppSynthReplies == {ApiError, Text(AnswerText)}

\* the longest chat history a prompt is still typed on
MaxMessages == 2

\* the events of the widgets
AppEvents ==
  {SetupEvent(uid, choice) : uid \in FormUserIds, choice \in FormLocales}
    \cup {ChangeUserEvent} \cup {PromptEvent(q) : q \in AppQuestions}
\* st.rerun() (lines 374, 390): the script is run again, for no widget
RerunEvent == [kind |-> "rerun", q |-> "", uid |-> "", choice |-> NoChoice]

\* a script run before its first line: the event it is run for (the form's
\* user_id and choices, the prompt) and the locals it has not bound yet
NewRun(ev) ==
  [kind |-> ev.kind, at |-> "Start", stop |-> FALSE,
   q |-> ev.q, uid |-> ev.uid, choice |-> ev.choice,
   list |-> <<>>, info |-> PyNone,
   pq |-> NoCall, code_dict |-> PyNone, context |-> PyNone,
   ns |-> ScriptRunGlobals(ns), ret |-> Pending]

Alive(i) == runs[i].kind # "none"
At(i, l) == Alive(i) /\ runs[i].at = l
Quiet == \A i \in 1..MaxRuns : ~Alive(i)
Ended(i) == [runs EXCEPT ![i] = NoRun]
\* st.* commands and accesses to st.session_state: the host ends the run i
\* there when it has asked it to stop; otherwise the run goes on as r
Yield(i, r) == IF runs[i].stop THEN Ended(i) ELSE [runs EXCEPT ![i] = r]
\* st.rerun(): the run starts the script again, asked to stop or not as it was
Rerun(i) == [runs EXCEPT ![i] = [NewRun(RerunEvent) EXCEPT !.stop = runs[i].stop]]
\* every run alive is asked to stop
AskedToStop ==
  [i \in 1..MaxRuns |-> IF Alive(i) THEN [runs[i] EXCEPT !.stop = TRUE] ELSE NoRun]
FreeSlot ==
  CHOOSE i \in 1..MaxRuns : ~Alive(i) /\ \A j \in 1..MaxRuns : ~Alive(j) => i <= j

\* the variables of the direct calls of Spec, which no script run writes
direct == <<pc, user_transactions, turn>>

\* lines 30-38 have run and the setup page is shown; app.py never puts a
\* graph helper in the session; the host is configured with or without
\* fast reruns
InitApp == NewSession /\ kg = FALSE /\ NoTurn /\ fast \in BOOLEAN /\ HostQuiet

\* the widget of the event is on the page the browser shows
Widgets(ev) == IF ev.kind = "setup" THEN shown = "setup" ELSE shown = "chat"

\* The user submits the form, presses Change User or types a prompt, and
\* the script run of the event starts at once: no run is alive, or the host
\* has fast reruns, and then the runs alive are asked to stop and go on
\* beside the new one until their next st.* command or session access.
EventStartsRun(ev) ==
  /\ pending = NoEvent
  /\ Widgets(ev)
  /\ ev.kind = "prompt" => Len(messages) < MaxMessages
  /\ fast \/ Quiet
  /\ \E i \in 1..MaxRuns : ~Alive(i)
  /\ runs' = [AskedToStop EXCEPT ![FreeSlot] = NewRun(ev)]
  /\ UNCHANGED <<session, messages, fast, shown, pending, direct>>

\* The same on a host without fast reruns while a run is alive: the run is
\* asked to stop and the event is kept until it has ended.
EventKept(ev) ==
  /\ pending = NoEvent
  /\ Widgets(ev)
  /\ ev.kind = "prompt" => Len(messages) < MaxMessages
  /\ ~fast /\ ~Quiet
  /\ runs' = AskedToStop
  /\ pending' = ev
  /\ UNCHANGED <<session, messages, fast, shown, direct>>

\* the runs before have ended: the script is run for the event the host kept
HandlePending ==
  /\ pending # NoEvent
  /\ Quiet
  /\ runs' = [runs EXCEPT ![1] = NewRun(pending)]
  /\ pending' = NoEvent
  /\ UNCHANGED <<session, messages, fast, shown, direct>>

\* Lines 12-38 and the page up to the handler of the run's event.  Line 312
\* reads the flag: the setup page with its form (313-343), or the chat page
\* with the button (387), the history (399-406) and the chat input (409).
\* A widget returns the event only on the page that has it; a run without a
\* handler to enter runs to the footer and ends.  The run is left at the
\* dataset read of line 349 (the id was typed, line 346), before the write
\* of line 388, or before the access of line 411.
RunScript(i) ==
  /\ At(i, "Start")
  /\ LET r == runs[i]
     IN IF r.stop
        THEN runs' = Ended(i) /\ UNCHANGED shown
        ELSE /\ shown' = IF authenticated THEN "chat" ELSE "setup"
             /\ runs' =
                  CASE ~authenticated /\ r.kind = "setup" /\ r.uid # "" ->
                         [runs EXCEPT ![i].at = "Load"]
                    [] authenticated /\ r.kind = "change_user" ->
                         [runs EXCEPT ![i].at = "L388"]
                    [] authenticated /\ r.kind = "prompt" ->
                         [runs EXCEPT ![i].at = "L411"]
                    [] OTHER -> Ended(i)
  /\ UNCHANGED <<session, messages, fast, pending, direct>>

\* lines 349-352: load_baseline_dataset returns; without the file it reports
\* the error and the run ends, with it the list is built (352, right side)
LoadReturns(i, file) ==
  /\ At(i, "Load")
  /\ runs' = IF file.found
             THEN Yield(i, [runs[i] EXCEPT !.at = "L352",
                                           !.list = DfToTransactionList(file.rows)])
             ELSE Ended(i)
  /\ UNCHANGED <<session, messages, fast, shown, pending, direct>>

\* line 352: the list built is written to the session
SetupWritesList(i) ==
  /\ At(i, "L352")
  /\ transaction_list' = runs[i].list
  /\ list_loaded' = TRUE
  /\ runs' = Yield(i, [runs[i] EXCEPT !.at = "L355"])
  /\ UNCHANGED <<authenticated, local_info, user_id, kg, messages, fast, shown, pending,
                 direct>>

\* lines 355-371: the session's list is read and filtered by the id typed;
\* without a record the error is shown (358) and the run ends
SetupChecksUser(i) ==
  /\ At(i, "L355")
  /\ LET ut == UserTransactions(transaction_list, runs[i].uid)
     IN runs' = IF SetupAccepts(ut)
                THEN Yield(i, [runs[i] EXCEPT !.at = "L365",
                                              !.info = LocalInfo(runs[i].choice, ut)])
                ELSE Ended(i)
  /\ UNCHANGED <<session, messages, fast, shown, pending, direct>>

\* line 365: the locale record is written
SetupWritesLocale(i) ==
  /\ At(i, "L365")
  /\ local_info' = runs[i].info
  /\ runs' = Yield(i, [runs[i] EXCEPT !.at = "L372"])
  /\ UNCHANGED <<authenticated, list_loaded, transaction_list, user_id, kg, messages,
                 fast, shown, pending, direct>>

\* line 372: the id is written
SetupWritesUser(i) ==
  /\ At(i, "L372")
  /\ user_id' = runs[i].uid
  /\ runs' = Yield(i, [runs[i] EXCEPT !.at = "L373"])
  /\ UNCHANGED <<authenticated, list_loaded, transaction_list, local_info, kg, messages,
                 fast, shown, pending, direct>>

\* lines 373-374: the flag is set and the script is run again
SetupAuthenticates(i) ==
  /\ At(i, "L373")
  /\ authenticated' = TRUE
  /\ runs' = Rerun(i)
  /\ UNCHANGED <<list_loaded, transaction_list, local_info, user_id, kg, messages,
                 fast, shown, pending, direct>>

\* line 388: the flag is cleared
ChangeUserClearsFlag(i) ==
  /\ At(i, "L388")
  /\ authenticated' = FALSE
  /\ runs' = Yield(i, [runs[i] EXCEPT !.at = "L389"])
  /\ UNCHANGED <<list_loaded, transaction_list, local_info, user_id, kg, messages,
                 fast, shown, pending, direct>>

\* lines 389-390: the history is emptied and the script is run again
ChangeUserEmptiesHistory(i) ==
  /\ At(i, "L389")
  /\ messages' = <<>>
  /\ runs' = Rerun(i)
  /\ UNCHANGED <<session, fast, shown, pending, direct>>

\* lines 411-417: the prompt joins the history and is shown
ChatAppendsPrompt(i) ==
  /\ At(i, "L411")
  /\ messages' = Append(messages, UserMessage(runs[i].q))
  /\ runs' = Yield(i, [runs[i] EXCEPT !.at = "L420"])
  /\ UNCHANGED <<session, fast, shown, pending, direct>>

\* line 420: the session's list is read
ChatReadsList(i) ==
  /\ At(i, "L420")
  /\ runs' = Yield(i, [runs[i] EXCEPT !.at = "L421", !.list = transaction_list])
  /\ UNCHANGED <<session, messages, fast, shown, pending, direct>>

\* line 421: the session's locale record is read
ChatReadsLocale(i) ==
  /\ At(i, "L421")
  /\ runs' = Yield(i, [runs[i] EXCEPT !.at = "L422", !.info = local_info])
  /\ UNCHANGED <<session, messages, fast, shown, pending, direct>>

\* Lines 422, 418 and 243-263: the session's id is read and
\* process_question is called with the three values read.  It returns the
\* "No transactions found" message, which the handler shows (426) before
\* the access of line 438, or it makes the code-generation call: no st.*
\* command lies before that call.
ChatCallsProcessQuestion(i) ==
  /\ At(i, "L422")
  /\ LET r == runs[i]
         args == Args(r.q, r.list, r.info, user_id)
         e == ProcessQuestionEntry(args)
     IN runs' = IF e.kind = "return"
                THEN Yield(i, [r EXCEPT !.at = "L438", !.pq = args, !.ret = e.ret])
                ELSE [runs EXCEPT ![i] = [r EXCEPT !.at = "CodeGen", !.pq = args]]
  /\ UNCHANGED <<session, messages, fast, shown, pending, direct>>

\* Lines 263-296 and 425-445: the code-generation reply arrives.  With a
\* context computed the answer-synthesis call is made (no st.* command lies
\* before it).  An exception that escapes process_question ends the run; so
\* does a null response, after st.error (237, 270, 283, 445).  A response
\* is shown (426) before the access of line 438.
ChatCodeGenReply(i, reply) ==
  /\ At(i, "CodeGen")
  /\ LET r == runs[i]
         a == AfterCodeGen(reply, r.pq, r.ns)
         upd == [r EXCEPT !.code_dict = a.code_dict, !.ns = a.run.ns,
                          !.context = a.run.context, !.ret = a.ret]
     IN runs' = IF a.kind = "call"
                THEN [runs EXCEPT ![i] = [upd EXCEPT !.at = "Synth"]]
                ELSE IF SavesReply(a.ret)
                THEN Yield(i, [upd EXCEPT !.at = "L438"])
                ELSE Ended(i)
  /\ UNCHANGED <<session, messages, fast, shown, pending, direct>>

\* Lines 296-309 and 425-445: the answer-synthesis reply arrives, the
\* diagram code is run and process_question returns.  A response is shown
\* (426-435) before the access of line 438; without one the run ends after
\* st.error (445).
ChatSynthReply(i, reply) ==
  /\ At(i, "Synth")
  /\ LET r == runs[i]
         a == AfterSynth(reply, r.code_dict, r.context, r.ns)
     IN runs' = IF SavesReply(a.ret)
                THEN Yield(i, [r EXCEPT !.at = "L438", !.ns = a.plot.ns, !.ret = a.ret])
                ELSE Ended(i)
  /\ UNCHANGED <<session, messages, fast, shown, pending, direct>>

\* lines 438-453: the response joins the history and the run ends
ChatAppendsReply(i) ==
  /\ At(i, "L438")
  /\ messages' = Append(messages, AssistantMessage(runs[i].ret))
  /\ runs' = Ended(i)
  /\ UNCHANGED <<session, fast, shown, pending, direct>>

NextApp ==
  \/ \E ev \in AppEvents : EventStartsRun(ev)
  \/ \E ev \in AppEvents : EventKept(ev)
  \/ HandlePending
  \/ \E i \in 1..MaxRuns : RunScript(i)
  \/ \E i \in 1..MaxRuns, file \in AppFiles : LoadReturns(i, file)
  \/ \E i \in 1..MaxRuns : SetupWritesList(i)
  \/ \E i \in 1..MaxRuns : SetupChecksUser(i)
  \/ \E i \in 1..MaxRuns : SetupWritesLocale(i)
  \/ \E i \in 1..MaxRuns : SetupWritesUser(i)
  \/ \E i \in 1..MaxRuns : SetupAuthenticates(i)
  \/ \E i \in 1..MaxRuns : ChangeUserClearsFlag(i)
  \/ \E i \in 1..MaxRuns : ChangeUserEmptiesHistory(i)
  \/ \E i \in 1..MaxRuns : ChatAppendsPrompt(i)
  \/ \E i \in 1..MaxRuns : ChatReadsList(i)
  \/ \E i \in 1..MaxRuns : ChatReadsLocale(i)
  \/ \E i \in 1..MaxRuns : ChatCallsProcessQuestion(i)
  \/ \E i \in 1..MaxRuns, r \in AppCodeReplies : ChatCodeGenReply(i, r)
  \/ \E i \in 1..MaxRuns, r \in AppSynthReplies : ChatSynthReply(i, r)
  \/ \E i \in 1..MaxRuns : ChatAppendsReply(i)

SpecApp == InitApp /\ [][NextApp]_vars

(***************************************************************************)
(* Properties                                                              *)
(***************************************************************************)
NoRecordOf(l, uid) == \A i \in 1..Len(l) : l[i].account # uid
FailureOutcome == Returned(PyNone, PyNone, PyNone)
SandboxUntouched ==
  /\ calls.exec_ctx = 0 /\ calls.call_ctx = 0
  /\ calls.exec_plot = 0 /\ calls.call_plot = 0
  /\ ctx_call = NoCall /\ plot_call = NoCall

\* C1: when no record of the list has the requested user id as its account,
\* process_question returns the fixed "No transactions found" message with a
\* null context and a null chart, and neither the code-generation nor the
\* answer-synthesis call is made.
C1_NoTransactionsNoModelCall ==
  (pq # NoCall /\ NoRecordOf(pq.transaction_list, pq.current_user_id))
    => /\ pc = "Done"
       /\ pq_ret = Returned(PyStr(NoTransactionsMsg(pq.current_user_id)), PyNone, PyNone)
       /\ result = pq_ret
       /\ calls.codegen = 0 /\ calls.synth = 0
       /\ SandboxUntouched

C1_Witness ==
  /\ pc = "Done" /\ pq # NoCall
  /\ pq.transaction_list # <<>>
  /\ NoRecordOf(pq.transaction_list, pq.current_user_id)
  /\ pq_ret.answer = PyStr(NoTransactionsMsg(pq.current_user_id))

\* C2: when the code-generation reply has is_relevant = false, the call ends
\* at once with the fixed "only transaction questions" message, a null
\* context and a null chart; no generated code is compiled or run, the
\* answer-synthesis call is not made, and process_question has made exactly
\* one model call (the code-generation call).
C2_IrrelevantShortCircuits ==
  (code_dict.kind = "object" /\ code_dict.is_relevant = PyBool(FALSE))
    => /\ pc = "Done"
       /\ pq_ret = Returned(PyStr(IrrelevantMsg), PyNone, PyNone)
       /\ result = pq_ret
       /\ SandboxUntouched
       /\ calls.codegen = 1 /\ calls.synth = 0

C2_Witness ==
  /\ pc = "Done"
  /\ code_dict.kind = "object" /\ code_dict.is_relevant = PyBool(FALSE)
  /\ code_dict.context_code = PyStr(CtxSumReceived)
  /\ code_dict.needs_diagram = PyBool(TRUE)
  /\ pq_ret.answer = PyStr(IrrelevantMsg)

Scenario ==
  << Tx("A", "Food", "outcome", "USD", 10),
     Tx("A", "Leisure", "outcome", "EUR", 20),
     Tx("B", "Taxi", "outcome", "GEL", 5) >>

\* C3: every record get_context is invoked on belongs to the requesting
\* user, so that on the list [A:10, A:20, B:5] for user A the routine that
\* sums the outcome amounts it receives yields 30.
C3_ContextScopedToUser ==
  ctx_call # NoCall
    => /\ \A i \in 1..Len(ctx_call.arg) : ctx_call.arg[i].account = pq.current_user_id
       /\ (pq.transaction_list = Scenario /\ pq.current_user_id = "A"
             /\ ctx_call.src = CtxSumReceived)
            => context = PyDict(30)

\* C4: every query handed to session.run is scoped to the current user: the
\* user_id bind parameter is query_kg's user_id argument and the query text
\* starts from that user's node.
C4_GraphQueryUserScoped ==
  kg_run # NoCall
    => /\ kg_run.parameters = Params(user_id)
       /\ kg_run.cypher \in UserScoped

\* C5: a call that ends without an answer text (a stage returned null or
\* failed) returns no partial output: the context and the chart are null too.
C5_FailureHasNoPartialOutput ==
  (pc = "Done" /\ pq # NoCall /\ pq_ret.kind = "returned" /\ pq_ret.answer = PyNone)
    => pq_ret = FailureOutcome

\* C6: no exception escapes process_question, whatever the model replies and
\* whatever the generated routines do.
C6_NoExceptionEscapes == pq_ret.kind # "raised"

ContextRoutineThrew == ctx_call # NoCall /\ ctx_call.src = CtxRaises

\* C7 as stated: a context routine that throws is caught and, when
\* needs_diagram is false, the turn still returns a text answer.
C7_ThrowingContextStillAnswers ==
  (pc = "Done" /\ ContextRoutineThrew /\ code_dict.needs_diagram = PyBool(FALSE))
    => pq_ret.kind = "returned" /\ pq_ret.answer.kind = "str"

\* C7, amended: a context routine that throws is caught and ends the call
\* with the failure outcome (None, None, None), whatever needs_diagram is;
\* the answer-synthesis call is not made and no diagram code is run.
C7_ThrowingContextFailsTurn ==
  ContextRoutineThrew
    => /\ pc = "Done"
       /\ pq_ret = FailureOutcome
       /\ result = pq_ret
       /\ calls.synth = 0 /\ calls.exec_plot = 0 /\ calls.call_plot = 0

C7_Witness ==
  /\ pc = "Done" /\ ContextRoutineThrew
  /\ ctx_call.fresh
  /\ code_dict.needs_diagram = PyBool(FALSE)
  /\ pq_ret = FailureOutcome

PlotFailureTexts == {PlotSyntaxError, PlotRaises, PlotNoEntry}

\* C8: when the diagram code of the turn fails (it does not compile, its
\* plot raises, or it defines no plot), the turn does not fail: the step in
\* which the answer-synthesis reply arrives returns from process_question
\* the answer text that reply gave and the computed context as it was, with
\* a null chart.
C8_PlotFailureKeepsAnswer ==
  [][\A sr \in SynthReplies :
       (SynthReply(sr) /\ calls'.exec_plot = 1
          /\ code_dict.diagram_code.s \in PlotFailureTexts)
         => pq_ret' = Returned(RunPrompt(sr), context, PyNone)]_vars

\* C9: the get_context and the plot invoked in a turn are the ones the
\* turn's own generated source defined, never a function bound in an
\* earlier turn; a turn whose source defines no entry point calls no
\* routine and fails.
C9_RoutineNeverReused ==
  /\ ctx_call # NoCall
       => ctx_call.fresh /\ PyStr(ctx_call.src) = code_dict.context_code
  /\ plot_call # NoCall
       => plot_call.fresh /\ PyStr(plot_call.src) = code_dict.diagram_code
  /\ (pc = "Done" /\ code_dict.kind = "object" /\ IsRelevant(code_dict)
        /\ code_dict.context_code = PyStr(CtxNoEntry))
       => pq_ret = FailureOutcome

GraphPathFailed ==
  calls.cypher = 1 /\ pc \notin {"KGQuery", "KGExec"} /\ kg_data = PyNone

\* C10: when query_kg returns None, process_question is invoked in the same
\* turn with the turn's question and the session's transaction list, locale
\* and user id, and what it returns is the turn's result.
C10_GraphFailureFallsBack ==
  GraphPathFailed
    => /\ pq = Args(question, transaction_list, local_info, user_id)
       /\ result = pq_ret

C10_Witness ==
  /\ pc = "Done" /\ GraphPathFailed
  /\ calls.store = 1
  /\ pq # NoCall
  /\ pq_ret.answer = PyStr(AnswerText)
  /\ result = pq_ret

\* C11: format_kg_results on a null result or on a result with zero rows
\* returns the fixed "no data" text of the session's language, and a turn
\* whose graph query returned zero rows ends with that text and without a
\* formatting call
C11_EmptyResultIsNoData ==
  /\ \A info \in Locales :
       FormatKgEntry(PyNone, info.user_language) =
         [kind |-> "return",
          text |-> PyStr(IF info.user_language = "RUS" THEN "Dannye ne naideny."
                         ELSE "No data found.")]
  /\ (pc = "Done" /\ kg_data # PyNone /\ kg_data.results = <<>>) =>
       /\ result.answer = PyStr(IF local_info.user_language = "RUS"
                                THEN "Dannye ne naideny." ELSE "No data found.")
       /\ result.kind = "returned"
       /\ calls.format = 0
C11_Witness ==
  /\ pc = "Done" /\ kg_data # PyNone /\ kg_data.results = <<>>
  /\ local_info.user_language = "RUS" /\ calls.store = 1

RequiredKeys(cd) ==
  {cd.is_relevant, cd.needs_diagram, cd.context_code, cd.algorithm_explanation,
   cd.diagram_code}
\* C12: a turn whose code-generation reply was a JSON object without one of
\* the five required keys ends with process_question returning a null answer
C12_MissingKeyFailsTurn ==
  (pc = "Done" /\ calls.codegen = 1 /\ code_dict.kind = "object"
     /\ Absent \in RequiredKeys(code_dict)) =>
    (pq_ret.kind = "returned" /\ pq_ret.answer = PyNone)

\* what process_question returns for a question, given the module globals n,
\* the code-generation reply r and the answer-synthesis reply sr
OutcomeOn(r, sr, args, n) ==
  LET a == AfterCodeGen(r, args, n)
  IN IF a.kind = "call"
     THEN AfterSynth(sr, a.code_dict, a.run.context, a.run.ns).ret
     ELSE a.ret
\* a step ends a call of process_question in the failure outcome
EndsInFailure == pc # "Done" /\ pc' = "Done" /\ pq' # NoCall /\ pq_ret' = FailureOutcome
\* C13: a failed turn affects the current turn only: the step that ends a
\* turn in the failure outcome leaves the transaction list, the locale
\* settings, the user id and the authenticated flag as they were, and the
\* next question is processed as if the failed turn had not happened:
\* whatever the model replies to it, process_question returns what it would
\* have returned in the module state the failed turn began in (turn_ns).
C13_FailedTurnOnlyItself ==
  [][EndsInFailure =>
       /\ UNCHANGED <<authenticated, list_loaded, transaction_list, local_info, user_id>>
       /\ \A r \in CodeReplies, sr \in SynthReplies :
            OutcomeOn(r, sr, HandlerArgs(question), Stale(ns')) =
              OutcomeOn(r, sr, HandlerArgs(question), turn_ns)]_vars

\* the positions of the list whose record belongs to the account
Matching(l, uid) == { i \in 1..Len(l) : l[i].account = uid }
\* C14: the filtered list holds exactly the records of the loaded list whose
\* account equals the id, in their original relative order; it is empty when
\* no record matches
C14_FilterExactAndOrdered ==
  pc = "Filtered" =>
    LET l == transaction_list
        u == user_transactions
        M == Matching(l, user_id)
    IN /\ Len(u) = Cardinality(M)
       /\ \E f \in [1..Len(u) -> M] :
            /\ \A j, k \in 1..Len(u) : j < k => f[j] < f[k]
            /\ \A k \in 1..Len(u) : u[k] = l[f[k]]
       /\ (M = {} => u = <<>>)
C14_Witness ==
  /\ pc = "Filtered"
  /\ Len(transaction_list) = 3 /\ Len(user_transactions) = 2
  /\ transaction_list[2].account # user_id
  /\ user_transactions[1] # user_transactions[2]

ExternalCalls == {"route", "cypher", "store", "format", "codegen", "synth"}
\* C15: in a turn each external call (routing, graph-query generation,
\* graph-store execution, result formatting, code generation, answer
\* synthesis) is made at most once, fallback turns included
C15_EachCallAtMostOnce == \A k \in ExternalCalls : calls[k] <= 1
C15_Witness ==
  /\ pc = "Done"
  /\ calls.route = 1 /\ calls.cypher = 1 /\ calls.store = 1
  /\ calls.codegen = 1 /\ calls.synth = 1
  /\ ~Truthy(result.answer)

\* the router's state a position of the turn belongs to
Phase(p) ==
  CASE p \in {"Idle", "Routing", "Done"} -> p
    [] p \in {"KGQuery", "KGExec", "KGFormat"} -> "GraphPath"
    [] p \in {"CodeGen", "Synth"} -> "InMemoryPath"
\* the moves of Idle -> Routing -> {GraphPath, InMemoryPath} -> Done; a new
\* turn starts from Done as from Idle, a session without a helper has its
\* routing decided at once, and the graph path may fall back
PhaseMoves ==
  {<<"Idle", "Routing">>, <<"Done", "Routing">>,
   <<"Idle", "InMemoryPath">>, <<"Done", "InMemoryPath">>,
   <<"Idle", "Done">>, <<"Done", "Done">>,
   <<"Routing", "GraphPath">>, <<"Routing", "InMemoryPath">>, <<"Routing", "Done">>,
   <<"GraphPath", "GraphPath">>, <<"GraphPath", "InMemoryPath">>,
   <<"GraphPath", "Done">>,
   <<"InMemoryPath", "InMemoryPath">>, <<"InMemoryPath", "Done">>}
FollowsStateOrder == <<Phase(pc), Phase(pc')>> \in PhaseMoves
\* C16: every step of a turn follows the state order, and a turn that
\* reaches Done has an answer or a failure outcome returned to the handler
C16_TurnFollowsStateOrder ==
  [][FollowsStateOrder /\ (pc' = "Done" => result'.kind = "returned")]_vars
\* the order without the outcome at Done
C16_OrderAlone == [][FollowsStateOrder]_vars

RECURSIVE OwnRecords(_, _)
\* the records of the account, in the list's order
OwnRecords(l, uid) ==
  IF l = <<>> THEN <<>>
  ELSE (IF Head(l).account = uid THEN <<Head(l)>> ELSE <<>>)
       \o OwnRecords(Tail(l), uid)
\* C17: the code-generation prompt embeds only categories and currencies of
\* the requesting user's own transactions, and any list that differs only in
\* other accounts' transactions gives the same prompt
C17_PromptOnlyOwnValues ==
  prompt # NoCall =>
    LET uid == pq.current_user_id
        own == OwnRecords(pq.transaction_list, uid)
    IN /\ prompt.unique_categories = { own[i].category : i \in 1..Len(own) }
       /\ prompt.unique_currencies = { own[i].currency : i \in 1..Len(own) }
       /\ \A l2 \in TxLists :
            OwnRecords(l2, uid) = own =>
              FullPrompt(Args(pq.question, l2, pq.local_info, uid)) = prompt
C17_Witness ==
  /\ prompt # NoCall /\ calls.codegen = 1
  /\ \E i \in 1..Len(pq.transaction_list) :
       /\ pq.transaction_list[i].account # pq.current_user_id
       /\ pq.transaction_list[i].category \notin prompt.unique_categories
       /\ pq.transaction_list[i].currency \notin prompt.unique_currencies

\* the reply asked for a diagram: needs_diagram true and a non-empty diagram_code
DiagramAsked(cd) ==
  /\ cd.kind = "object"
  /\ cd.needs_diagram = PyBool(TRUE)
  /\ cd.diagram_code.kind = "str" /\ cd.diagram_code.s # ""
PlotTouched == calls.exec_plot > 0 \/ calls.call_plot > 0 \/ plot_call # NoCall
\* C18: the plot routine is compiled and invoked only when the reply asked
\* for a diagram and only after the context routine returned; in every other
\* turn the returned chart is null
C18_PlotOnlyWhenAsked ==
  /\ PlotTouched =>
       /\ DiagramAsked(code_dict)
       /\ calls.call_ctx = 1 /\ ctx_call # NoCall /\ calls.synth = 1
  /\ (pc = "Done" /\ ~DiagramAsked(code_dict)) => result.chart = PyNone
\* the same for replies whose needs_diagram is a JSON boolean or missing
C18_WellTypedFlag ==
  (code_dict.kind = "object" /\ code_dict.needs_diagram.kind = "str")
    \/ C18_PlotOnlyWhenAsked

\* C19: should_use_kg returns false on a transport error, an unparsable
\* reply and a reply without the use_kg key; what it returns is a boolean,
\* and the graph path is entered only on a reply whose use_kg is true
C19_GraphOnlyOnExplicitTrue ==
  /\ \A r \in {ApiError, Text("not json"), UseKg(Absent)} :
       ShouldUseKg(r) = PyBool(FALSE)
  /\ use_kg # NoCall => use_kg \in {PyBool(TRUE), PyBool(FALSE)}
  /\ calls.cypher > 0 => use_kg = PyBool(TRUE)
  /\ (use_kg = PyBool(FALSE) /\ pc \notin {"Idle", "Routing"}) =>
       (pq # NoCall /\ calls.cypher = 0)
\* the same for replies whose use_kg is a JSON boolean or missing
C19_WellTypedFlag == use_kg = PyStr("false") \/ C19_GraphOnlyOnExplicitTrue

\* C20: whenever the session is authenticated, the transaction list and the
\* locale settings are set and the session's user id has a transaction in
\* the list; no call of process_question from the chat page is made without
\* a transaction of the user or returns the "No transactions found" message
C20_AuthenticatedHasTransactions ==
  /\ authenticated =>
       /\ list_loaded
       /\ local_info # PyNone
       /\ \E k \in 1..Len(transaction_list) : transaction_list[k].account = user_id
  /\ \A i \in 1..MaxRuns :
       (Alive(i) /\ runs[i].pq # NoCall) =>
         /\ \E k \in 1..Len(runs[i].pq.transaction_list) :
              runs[i].pq.transaction_list[k].account = runs[i].pq.current_user_id
         /\ runs[i].ret.answer # PyStr(NoTransactionsMsg(runs[i].pq.current_user_id))

\* the turn returned a non-empty answer text to the chat page
Answered(res) == res.kind = "returned" /\ res.answer.kind = "str" /\ res.answer.s # ""
\* the chat history in a state: an assistant message
\* has a text and directly follows a user message, and after Change User
\* (the flag is cleared and no run stands before line 389) it is empty
HistoryShape ==
  /\ \A k \in 1..Len(messages) :
       messages[k].role = "assistant" =>
         /\ k > 1 /\ messages[k - 1].role = "user"
         /\ messages[k].content.kind = "str" /\ messages[k].content.s # ""
  /\ (~authenticated /\ \A i \in 1..MaxRuns : ~At(i, "L389")) => messages = <<>>
\* what a step does to the history: the handler of a prompt appends one
\* user message with the question (line 411); a turn that returned a
\* non-empty answer text appends the assistant message, directly after its
\* own user message (line 438); Change User empties it (line 389); every
\* other step, the end of a failed turn among them, leaves it as it is
HistoryStep ==
  LET n == Len(messages)
  IN \/ messages' = messages
     \/ \E i \in 1..MaxRuns :
          /\ At(i, "L411")
          /\ messages' = Append(messages, UserMessage(runs[i].q))
     \/ \E i \in 1..MaxRuns :
          /\ At(i, "L438") /\ Answered(runs[i].ret)
          /\ messages' = Append(messages, AssistantMessage(runs[i].ret))
          /\ n >= 1 /\ messages[n] = UserMessage(runs[i].q)
     \/ \E i \in 1..MaxRuns :
          /\ At(i, "L389") /\ runs[i].kind = "change_user"
          /\ messages' = <<>>
\* C21: the chat history gets one user message per question asked since
\* the last Change User; an assistant message is appended only when the
\* turn returned a non-empty answer text, directly after that turn's user
\* message; a failed turn leaves its user message without a reply; Change
\* User empties the history
C21_ChatHistory == [][HistoryStep /\ HistoryShape']_vars

====
